---- MODULE Spec2Model ----
(***************************************************************************)
(* A model of the orchestration core of the flight-booking assistant:      *)
(*   - the rate limiter of f_agent.py (RateLimitedLLM.invoke),             *)
(*   - the web agent of f_agent.py (FlightBookingAgent and its graph),     *)
(*   - the terminal agent graph of flight_agent.py,                        *)
(*   - the tools of both agents as their dispatch invokes them.            *)
(* Each part has its own next-state relation and specification; the        *)
(* variables of the other parts keep their initial values.                 *)
(***************************************************************************)
EXTENDS Integers, Sequences, FiniteSets, TLC

VARIABLES
    \* ---- RateLimitedLLM (f_agent.py:36-61) and the wall clock
    now,             \* time.time(), in whole seconds
    last_call_time,  \* self.last_call_time
    call_count,      \* self.call_count
    l_pc,            \* where invoke() is: "idle", "sleep_delay", "sleep_cap"
    l_wake,          \* the instant the current time.sleep() may return
    l_late,          \* seconds the environment has let pass beyond need
    l_admitted,      \* the instants of the admitted calls of the last window
    l_capped,        \* the latest call of invoke() has taken the cap branch
    \* ---- the terminal agent graph (flight_agent.py:227-238)
    t_messages,      \* state["messages"]
    t_finished,      \* state["finished"], an optional value
    t_node,          \* the node to run next, "__end__", or the exception raised
    t_steps,         \* supersteps of graph.invoke executed so far
    t_llm_calls,     \* calls of llm_with_tools.invoke issued so far
    t_tool_runs,     \* tool invocations issued so far
    t_quit_read,     \* the human step has read a quit token
    t_after_quit,    \* reasoning and tool calls issued after that
    \* ---- the web agent (f_agent.py:175-311) and its driver (f_agent.py:314-357)
    chat_state,      \* st.session_state.chat_state, the state the driver holds
    graph,           \* the channels of BookingState while graph.invoke runs
    w_node,          \* the node to run next; "idle" between two submissions
    w_prev,          \* the node that ran last in this invocation
    w_steps,         \* supersteps of this graph.invoke executed so far
    w_turns,         \* non-blank submissions so far
    w_llm_calls,     \* calls of llm.invoke issued in this turn
    w_presented,     \* the messages handed to the latest llm.invoke of the running turn
    w_dispatched,    \* ids of the requests search_flights ran for in the running turn
    w_cases,         \* the backend's answers to the searches of the latest dispatch
    w_options,       \* flight_options before that dispatch and after each of its searches
    w_backend_at,    \* the instants of the backend calls of the running turn
    w_outcome,       \* how the latest turn ended: "returned" or "aborted"
    w_handed_completed,  \* a state with completed=true was handed in
    w_tools_every_call,  \* every response of this turn carried tool requests
    w_llm_failed,    \* llm.invoke has raised in this turn
    last_tool_use,   \* self.last_tool_use of the agent
    \* ---- the tools as the dispatch of either agent invokes them
    b_orders,        \* the flight orders the backend holds
    k_log,           \* the invocations so far: tool, argument, backend outcome, result
    k_messages,      \* the messages the dispatch has fed back to the conversation
    k_cases,         \* for each invocation, the backend's answers to a web search
    k_requests,      \* the requests the backend has received, each with its invocation
    k_status,        \* "running", or "raised" once an exception has left a tool
    \* ---- the chat driver of ap_ag.py
    d_messages,      \* st.session_state.messages
    d_displayed,     \* the assistant messages written to the page after a submission
    d_replies,       \* the assistant messages process_streamlit_input has produced
    d_submissions    \* submissions so far

limiterVars == <<now, last_call_time, call_count, l_pc, l_wake, l_late, l_admitted,
                 l_capped>>

terminalVars == <<t_messages, t_finished, t_node, t_steps, t_llm_calls,
                  t_tool_runs, t_quit_read, t_after_quit>>

webVars == <<chat_state, graph, w_node, w_prev, w_steps, w_turns, w_llm_calls,
             w_presented, w_dispatched, w_cases, w_options, w_backend_at,
             w_outcome, w_handed_completed,
             w_tools_every_call, w_llm_failed, last_tool_use>>

toolsVars == <<b_orders, k_log, k_messages, k_cases, k_requests, k_status>>

driverVars == <<d_messages, d_displayed, d_replies, d_submissions>>

vars == <<limiterVars, terminalVars, webVars, toolsVars, driverVars>>

\* What the actions of each part leave alone.
notLimiter == <<terminalVars, webVars, toolsVars, driverVars>>
notTerminal == <<limiterVars, webVars, toolsVars, driverVars>>
notWeb == <<limiterVars, terminalVars, toolsVars, driverVars>>
notTools == <<limiterVars, terminalVars, webVars, driverVars>>
notDriver == <<limiterVars, terminalVars, webVars, toolsVars>>

\* An optional value: <<>> when the key is absent, <<v>> when it holds v.
Absent == <<>>
Some(v) == <<v>>
Get(opt, default) == IF opt = Absent THEN default ELSE opt[1]

(***************************************************************************)
(* Rate limiter                                                            *)
(***************************************************************************)

\* Config.REQUEST_DELAY (6.0 seconds), Config.MAX_REQUESTS_PER_MINUTE and the
\* time.sleep(60) of the cap branch.
REQUEST_DELAY == 6
MAX_REQUESTS_PER_MINUTE == 10
WINDOW == 60

\* Bounds of the clock: the instant the process starts at, the last instant
\* explored, and how many seconds in all the environment may add to the
\* waits (a caller arriving later than the earliest admissible instant, a
\* sleep returning late).
StartTime == 100
MaxTime == 223
MaxLate == 1

Last(s) == s[Len(s)]

\* Mutation of SpacingWait: the sleep of line 52 left out.
SpacingWait_NoSleep(elapsed) == 0

\* Lines 48-52: how long invoke() sleeps to keep the calls apart.
SpacingWait(elapsed) ==
    IF elapsed < REQUEST_DELAY THEN REQUEST_DELAY - elapsed ELSE 0

\* Mutation of CapReached: an off-by-one in the comparison of line 54.
CapReached_OffByOne(count) == count > MAX_REQUESTS_PER_MINUTE

\* Line 54: the counter has reached the cap.
CapReached(count) == count >= MAX_REQUESTS_PER_MINUTE

\* Mutation of SleepReturns: a sleep that never returns.
SleepReturns_Never(wake, t) == FALSE

\* time.sleep of lines 52 and 55 returns once its duration has passed.
SleepReturns(wake, t) == t >= wake

\* The admitted instants that lie within one window ending at t.
WithinWindow(log, t) == SelectSeq(log, LAMBDA x : t - x <= WINDOW)

LimiterInit ==
    /\ now = StartTime
    /\ last_call_time = 0
    /\ call_count = 0
    /\ l_pc = "idle"
    /\ l_wake = 0
    /\ l_late = 0
    /\ l_admitted = <<>>
    /\ l_capped = FALSE

\* Lines 58-61: the call is recorded at the instant `now` and the service is
\* invoked; count is the counter as the cap branch left it.
Admit(count) ==
    /\ last_call_time' = now
    /\ call_count' = count + 1
    /\ l_admitted' = Append(WithinWindow(l_admitted, now), now)
    /\ l_pc' = "idle"
    /\ l_wake' = l_wake

\* Lines 47-58: the instant a call made now is admitted at when no sleep
\* returns late.
InvokeInstant ==
    now + SpacingWait(now - last_call_time)
        + (IF CapReached(call_count) THEN WINDOW ELSE 0)

\* Lines 47-52: read the clock and start the spacing sleep (of zero seconds
\* when the spacing has elapsed). A call is made only while the instants
\* explored leave room for its sleeps and for their returning late.
InvokeEnter ==
    /\ UNCHANGED notLimiter
    /\ l_pc = "idle"
    /\ InvokeInstant + (MaxLate - l_late) <= MaxTime
    /\ l_pc' = "sleep_delay"
    /\ l_wake' = now + SpacingWait(now - last_call_time)
    /\ l_capped' = FALSE
    /\ UNCHANGED <<now, last_call_time, call_count, l_late, l_admitted>>

\* Lines 52-59: the spacing sleep has returned; either the cap is reached and
\* the sleep of 60 seconds starts, or the call is admitted.
InvokeAfterDelay ==
    /\ UNCHANGED notLimiter
    /\ l_pc = "sleep_delay"
    /\ SleepReturns(l_wake, now)
    /\ IF CapReached(call_count)
         THEN /\ l_pc' = "sleep_cap"
              /\ l_wake' = now + WINDOW
              /\ l_capped' = TRUE
              /\ UNCHANGED <<last_call_time, call_count, l_admitted>>
         ELSE Admit(call_count) /\ UNCHANGED l_capped
    /\ UNCHANGED <<now, l_late>>

\* Lines 55-61: the sleep of the cap branch has returned; the counter is
\* reset and the call admitted.
InvokeAfterCap ==
    /\ UNCHANGED notLimiter
    /\ l_pc = "sleep_cap"
    /\ SleepReturns(l_wake, now)
    /\ Admit(0)
    /\ UNCHANGED <<now, l_late, l_capped>>

\* A second passes that nothing asked for: the caller is idle although a
\* call would be admitted at once, or a sleep is over and has not returned.
IsLate ==
    \/ l_pc = "idle" /\ now - last_call_time >= REQUEST_DELAY
    \/ l_pc # "idle" /\ now >= l_wake

\* The clock advances by one second.
Tick ==
    /\ UNCHANGED notLimiter
    /\ now < MaxTime
    /\ IsLate => l_late < MaxLate
    /\ now' = now + 1
    /\ l_late' = IF IsLate THEN l_late + 1 ELSE l_late
    /\ UNCHANGED <<last_call_time, call_count, l_pc, l_wake, l_admitted, l_capped>>

\* The caller stays away for a whole window between two calls.
IdleWindow ==
    /\ UNCHANGED notLimiter
    /\ l_pc = "idle"
    /\ now + WINDOW <= MaxTime
    /\ now' = now + WINDOW
    /\ UNCHANGED <<last_call_time, call_count, l_pc, l_wake, l_late, l_admitted,
                   l_capped>>

LimiterNext ==
    \/ InvokeEnter
    \/ InvokeAfterDelay
    \/ InvokeAfterCap
    \/ Tick
    \/ IdleWindow

(***************************************************************************)
(* Messages                                                                *)
(***************************************************************************)

\* langchain_core messages: an AIMessage carries tool_calls (name, id), a
\* ToolMessage the tool_call_id it answers.
AIMessage(content, tool_calls) ==
    [type |-> "ai", content |-> content, tool_calls |-> tool_calls,
     name |-> "", tool_call_id |-> <<>>]
HumanMessage(content) ==
    [type |-> "human", content |-> content, tool_calls |-> <<>>,
     name |-> "", tool_call_id |-> <<>>]
SystemMessage(content) ==
    [type |-> "system", content |-> content, tool_calls |-> <<>>,
     name |-> "", tool_call_id |-> <<>>]
ToolMessage(content, name, tool_call_id) ==
    [type |-> "tool", content |-> content, tool_calls |-> <<>>,
     name |-> name, tool_call_id |-> tool_call_id]

\* A tool request of the i-th position in the response to the n-th call of
\* the reasoning service; the service gives every request an id of its own.
ToolCall(name, n, i) == [name |-> name, id |-> <<n, i>>]

\* str.strip() of the texts the model uses: is anything left.
StripNonEmpty(text) == text \notin {"", " "}

(***************************************************************************)
(* The terminal agent graph, flight_agent.py                               *)
(***************************************************************************)

\* config["recursion_limit"] is 100 in flight_agent.py:17; the model runs
\* the same graph under a smaller limit so that a session hitting it can be
\* explored in full.
recursion_limit == 8

WELCOME_MSG == "Welcome to FlightAgent! how can I help you today?"

\* Line 167: the quit tokens.
QuitTokens == {"q", "quit", "exit", "goodbye"}

\* What input() may return.
UserTexts == QuitTokens \cup {"Quit", "Find flights from ADD to CDG"}

\* Line 221: the tools of the ToolNode.
TerminalTools == {"search_flights", "hold_reservation", "add_passenger_info",
                  "process_payment", "confirm_booking", "cancel_hold"}

\* What llm_with_tools.invoke may return as its n-th response.
TerminalResponses(n) ==
    { AIMessage("Which date?", <<>>),
      AIMessage("", <<ToolCall("search_flights", n, 1)>>),
      AIMessage("", <<ToolCall("hold_reservation", n, 1),
                      ToolCall("confirm_booking", n, 2)>>),
      AIMessage("", <<ToolCall("cancel_hold", n, 1),
                      ToolCall("book_hotel", n, 2)>>) }

\* How the backend answers one request.
BackendOutcomes == {"ok", "ResponseError"}

\* Lines 74-154: what each tool returns; ToolNode answers a name it does not
\* know by an error text.
ToolOutput(name, outcome) ==
    CASE name = "search_flights" ->
           IF outcome = "ok" THEN "response.data" ELSE "Error searching flights"
      [] name = "hold_reservation" ->
           IF outcome = "ok" THEN "Flight held successfully"
                             ELSE "Error holding flight"
      [] name = "add_passenger_info" -> "Passenger information added successfully"
      [] name = "process_payment" -> "Payment processed successfully"
      [] name = "confirm_booking" -> "Booking confirmed. Reference: ABC123"
      [] name = "cancel_hold" ->
           IF outcome = "ok" THEN "Hold cancelled successfully"
                             ELSE "Error cancelling hold"
      [] OTHER -> "Error: not a valid tool"

\* Line 222, ToolNode(tools): one ToolMessage for each tool request of the
\* last message, in the order of the requests.
tool_node(tool_calls, outcomes) ==
    [i \in 1..Len(tool_calls) |->
        ToolMessage(ToolOutput(tool_calls[i].name, outcomes[i]),
                    tool_calls[i].name, tool_calls[i].id)]

\* Mutation of maybe_exit_human_node: the flag is not looked at.
maybe_exit_human_node_Ignore(finished) == "chatbot"

\* Lines 172-177.
maybe_exit_human_node(finished) ==
    IF Get(finished, FALSE) THEN "__end__" ELSE "chatbot"

\* Mutation of maybe_route_to_tools: the tool requests are not looked at.
maybe_route_to_tools_AlwaysHuman(msgs) == "human"

\* Lines 180-191.
maybe_route_to_tools(msgs) ==
    IF Len(Last(msgs).tool_calls) > 0 THEN "tools" ELSE "human"

TerminalInit ==
    /\ t_messages = <<>>
    /\ t_finished = Absent
    /\ t_node = "chatbot"
    /\ t_steps = 0
    /\ t_llm_calls = 0
    /\ t_tool_runs = 0
    /\ t_quit_read = FALSE
    /\ t_after_quit = 0

\* The graph runs one more node only below the recursion limit.
TerminalMayStep == t_steps < recursion_limit

\* Mutation of HasMessages: the reasoning service is called for an empty
\* history too.
HasMessages_Always(msgs) == TRUE

\* Line 197, the truth value of state["messages"].
HasMessages(msgs) == msgs # <<>>

\* Lines 194-203 and the conditional edge of line 234: the welcome message
\* for an empty history, else one call of the reasoning service, whose
\* exception nothing catches.
chatbot_with_tools ==
    /\ UNCHANGED notTerminal
    /\ t_node = "chatbot"
    /\ TerminalMayStep
    /\ t_steps' = t_steps + 1
    /\ IF ~HasMessages(t_messages)
         THEN /\ t_messages' = <<AIMessage(WELCOME_MSG, <<>>)>>
              /\ t_node' = maybe_route_to_tools(t_messages')
              /\ UNCHANGED <<t_llm_calls, t_after_quit>>
         ELSE /\ t_llm_calls' = t_llm_calls + 1
              /\ t_after_quit' = IF t_quit_read THEN t_after_quit + 1 ELSE t_after_quit
              /\ \/ /\ t_messages' = t_messages
                    /\ t_node' = "LLMError"
                 \/ \E r \in TerminalResponses(t_llm_calls + 1) :
                       /\ t_messages' = Append(t_messages, r)
                       /\ t_node' = maybe_route_to_tools(t_messages')
    /\ UNCHANGED <<t_finished, t_tool_runs, t_quit_read>>

\* Lines 158-170 and the conditional edge of line 233.
human_node ==
    /\ UNCHANGED notTerminal
    /\ t_node = "human"
    /\ TerminalMayStep
    /\ t_steps' = t_steps + 1
    /\ \E user_input \in UserTexts :
          /\ t_finished' = IF user_input \in QuitTokens THEN Some(TRUE) ELSE t_finished
          /\ t_quit_read' = (t_quit_read \/ user_input \in QuitTokens)
          /\ t_messages' = Append(t_messages, HumanMessage(user_input))
    /\ t_node' = maybe_exit_human_node(t_finished')
    /\ UNCHANGED <<t_llm_calls, t_tool_runs, t_after_quit>>

\* Line 229 and the edge of line 232: the tools node, then the chatbot.
tools ==
    /\ UNCHANGED notTerminal
    /\ t_node = "tools"
    /\ TerminalMayStep
    /\ t_steps' = t_steps + 1
    /\ LET tool_calls == Last(t_messages).tool_calls IN
          /\ \E outcomes \in [1..Len(tool_calls) -> BackendOutcomes] :
                t_messages' = t_messages \o tool_node(tool_calls, outcomes)
          /\ t_tool_runs' = t_tool_runs + Len(tool_calls)
          /\ t_after_quit' = IF t_quit_read THEN t_after_quit + Len(tool_calls)
                                            ELSE t_after_quit
    /\ t_node' = "chatbot"
    /\ UNCHANGED <<t_finished, t_llm_calls, t_quit_read>>

\* Line 238: graph.invoke raises GraphRecursionError when a node is due and
\* the limit is used up; nothing catches it.
TerminalRecursionError ==
    /\ UNCHANGED notTerminal
    /\ t_node \in {"chatbot", "human", "tools"}
    /\ ~TerminalMayStep
    /\ t_node' = "GraphRecursionError"
    /\ UNCHANGED <<t_messages, t_finished, t_steps, t_llm_calls, t_tool_runs,
                   t_quit_read, t_after_quit>>

TerminalNext ==
    \/ chatbot_with_tools
    \/ human_node
    \/ tools
    \/ TerminalRecursionError

(***************************************************************************)
(* The web agent, f_agent.py                                               *)
(***************************************************************************)

\* Config.MAX_RECURSION is 50 in f_agent.py:21; the model runs the same graph
\* under a smaller limit so that the turns hitting it can be explored in
\* full. MaxTurns bounds the submissions of one session.
MAX_RECURSION == 5
MaxTurns == 2

\* Line 97, lines 198, 215, 222, 308 and 322: the fixed texts.
SYSTEM_PROMPT == SystemMessage("You are FlightAgent, a professional flight booking assistant.")
START_WELCOME == "Welcome! Where would you like to fly?"
MAIN_WELCOME == "Welcome! Where shall we fly today?"
HELP_PROMPT == "How can I help with your travel plans?"
FALLBACK == "Let me check that for you..."
TRY_AGAIN == "Please give me a moment and try again."

\* What st.chat_input may hand to process_streamlit_input.
WebTexts == {" ", "Find flights from ADD to CDG on 2025-06-20"}

\* What llm.invoke may return as the n-th response of the turn `turn`.
WebResponses(turn, n) ==
    { AIMessage("I found these flights.", <<>>),
      AIMessage("", <<ToolCall("search_flights", <<turn, n>>, 1)>>),
      AIMessage("", <<ToolCall("search_flights", <<turn, n>>, 1),
                      ToolCall("search_flights", <<turn, n>>, 2)>>),
      AIMessage("", <<ToolCall("search_flights", <<turn, n>>, 1),
                      ToolCall("hold_reservation", <<turn, n>>, 2)>>),
      AIMessage("", <<ToolCall("hold_reservation", <<turn, n>>, 1)>>) }

\* What llm.invoke raises when the reasoning service is unavailable.
LLMException ==
    [type |-> "exception", content |-> "ServiceUnavailable", tool_calls |-> <<>>,
     name |-> "", tool_call_id |-> <<>>]

\* Lines 217-222: the message _chat_node returns, the response of llm.invoke
\* or the fallback message when it raised.
chat_node_message(outcome) ==
    IF outcome.type = "exception" THEN AIMessage(FALLBACK, <<>>) ELSE outcome

\* ---- the flight-data backend as search_flights sees it

\* An offer of the backend's search response; `class` is an optional key.
Offer(id, total, carrier, number, class) ==
    [id |-> id, total |-> total, currency |-> "EUR", carrierCode |-> carrier,
     number |-> number, origin |-> "ADD", destination |-> "CDG", class |-> class]

TwoOffers ==
    << Offer("1", "350.00", "ET", "704", Some("ECONOMY")),
       Offer("2", "410.50", "AF", "815", Some("ECONOMY")) >>

OffersWithoutClass == << Offer("1", "350.00", "ET", "704", Absent) >>

\* The backend's answer to one airport lookup: the candidates, or an error.
Airports(codes) == [raised |-> FALSE, data |-> codes]
LookupError == [raised |-> TRUE, data |-> <<>>]

\* One answer of the backend to the requests of one search_flights call: the
\* answers to the two airport lookups, and the search response.
BackendCase(origin, dest, search, data) ==
    [origin |-> origin, dest |-> dest, search |-> search, data |-> data]

BackendCases ==
    { BackendCase(Airports(<<"ADD">>), Airports(<<"CDG">>), "data", TwoOffers),
      BackendCase(Airports(<<"ADD">>), Airports(<<"CDG">>), "data", <<>>),
      BackendCase(Airports(<<"ADD">>), Airports(<<"CDG">>), "data", OffersWithoutClass),
      BackendCase(Airports(<<"ADD">>), Airports(<<"CDG">>), "ResponseError", <<>>),
      BackendCase(Airports(<<>>), Airports(<<"CDG">>), "data", TwoOffers),
      BackendCase(Airports(<<"ADD">>), LookupError, "data", TwoOffers) }

\* The same with the case in which neither lookup gives a code.
LookupCases ==
    BackendCases \cup { BackendCase(Airports(<<>>), LookupError, "data", TwoOffers) }

\* Lines 144-153: the first candidate; None when there is none or when the
\* lookup raised.
get_airport_code(lookup) ==
    IF lookup.raised THEN Absent
    ELSE IF lookup.data # <<>> THEN Some(lookup.data[1])
    ELSE Absent

\* Lines 156-172; offer['class'] raises KeyError for an offer without it.
format_flight_results(offers) ==
    [i \in 1..Len(offers) |->
        [id |-> offers[i].id, price |-> offers[i].total,
         currency |-> offers[i].currency, airline |-> offers[i].carrierCode,
         flight_number |-> offers[i].number, origin |-> offers[i].origin,
         destination |-> offers[i].destination,
         cabin_class |-> offers[i].class[1]]]

ErrorResult(text) == [error |-> Some(text), flights |-> <<>>]
FlightsResult(flights) == [error |-> Absent, flights |-> flights]

\* Lines 113-141: the result is a dict with the key "error", or the list of
\* the formatted offers.
search_flights(b) ==
    IF get_airport_code(b.origin) = Absent \/ get_airport_code(b.dest) = Absent
      THEN ErrorResult("Invalid airport codes")
    ELSE IF b.search = "ResponseError"
      THEN ErrorResult("API error: ResponseError")
    ELSE IF b.data = <<>>
      THEN ErrorResult("No flights found")
    ELSE IF \E i \in 1..Len(b.data) : b.data[i].class = Absent
      THEN ErrorResult("Search failed: 'class'")
    ELSE FlightsResult(format_flight_results(b.data))

\* Lines 118-131: the backend calls one search_flights issues, the two
\* airport lookups and, when both gave a code, the search.
backend_calls(b) ==
    IF get_airport_code(b.origin) = Absent \/ get_airport_code(b.dest) = Absent
      THEN 2 ELSE 3

\* One request the backend receives.
Request(api, keyword) == [api |-> api, keyword |-> keyword]

\* Mutation of backend_requests: the offer search is requested whatever the
\* lookups gave.
backend_requests_Always(origin, destination, b) ==
    << Request("reference_data.locations", origin),
       Request("reference_data.locations", destination),
       Request("shopping.flight_offers_search", "") >>

\* Lines 118-131: the requests one search_flights sends to the backend: a
\* lookup for the origin, a lookup for the destination, and the offer
\* search when both lookups gave a code.
backend_requests(origin, destination, b) ==
    << Request("reference_data.locations", origin),
       Request("reference_data.locations", destination) >>
    \o (IF get_airport_code(b.origin) = Absent \/ get_airport_code(b.dest) = Absent
          THEN <<>>
          ELSE << Request("shopping.flight_offers_search", "") >>)

\* json.dumps of lines 239 and 249.
JsonError(text) == "{\"error\": \"" \o text \o "\"}"
JsonCount(n) == "{\"count\": " \o ToString(n) \o "}"

\* Lines 269-276: one line for each flight, joined by line breaks.
RECURSIVE FormatLines(_, _)
FormatLines(flights, i) ==
    IF i > Len(flights) THEN ""
    ELSE (IF i > 1 THEN "\n" ELSE "")
         \o ToString(i) \o ". " \o flights[i].airline \o " "
         \o flights[i].flight_number \o " (" \o flights[i].origin \o "->"
         \o flights[i].destination \o ") " \o flights[i].price \o " "
         \o flights[i].currency \o FormatLines(flights, i + 1)

format_flights(flights) == FormatLines(flights, 1)

\* ---- the nodes of the graph (lines 182-194)

NoChannels ==
    [messages |-> <<>>, search_params |-> Absent, flight_options |-> Absent,
     selected_flight |-> Absent, booking_in_progress |-> Absent,
     completed |-> Absent]

\* Lines 196-204: what the start node writes; add_messages appends the
\* messages, every other key replaces the channel.
start_node(state) ==
    [messages |-> state.messages \o
                    <<SYSTEM_PROMPT, AIMessage(START_WELCOME, <<>>)>>,
     search_params |-> Some("{}"),
     flight_options |-> Some(<<>>),
     selected_flight |-> Some("None"),
     booking_in_progress |-> Some(FALSE),
     completed |-> Some(FALSE)]

\* Mutation of ChatMessages: the digest of the flight options left out.
ChatMessages_NoDigest(state) ==
    SelectSeq(state.messages, LAMBDA m : StripNonEmpty(m.content))

\* Lines 207-215: the messages _chat_node hands to llm.invoke.
ChatMessages(state) ==
    LET kept == SelectSeq(state.messages, LAMBDA m : StripNonEmpty(m.content))
        flights == Get(state.flight_options, <<>>)
        digest == IF flights # <<>> /\ format_flights(flights) # ""
                    THEN <<AIMessage("Flight options:\n" \o format_flights(flights), <<>>)>>
                    ELSE <<>>
        messages == kept \o digest
    IN  IF messages = <<>> THEN <<AIMessage(HELP_PROMPT, <<>>)>> ELSE messages

\* Mutation of options_after: flight_options is replaced by whatever the
\* search gave, nothing when it failed.
options_after_Replace(result, flight_options) == Some(result.flights)

\* Lines 236-246: flight_options is replaced by the result of a search that
\* gave no error and left alone otherwise.
options_after(result, flight_options) ==
    IF result.error # Absent THEN flight_options ELSE Some(result.flights)

\* What the loop of _search_node starts with.
LoopStart(flight_options) ==
    [outbound |-> <<>>, flight_options |-> flight_options, dispatched |-> <<>>,
     options |-> <<flight_options>>, calls |-> 0]

\* Lines 232-254, the body of the loop for the requests that are left:
\* acc holds outbound, flight_options, the ids search_flights ran for, the
\* value of flight_options after each search and the number of backend
\* calls issued.
RECURSIVE SearchLoop(_, _, _)
SearchLoop(tool_calls, outcomes, acc) ==
    IF tool_calls = <<>> THEN acc
    ELSE LET tool_call == Head(tool_calls) IN
         IF tool_call.name = "search_flights"
           THEN LET result == search_flights(Head(outcomes))
                    answer ==
                      IF result.error # Absent
                        THEN << ToolMessage(JsonError(result.error[1]),
                                            tool_call.name, tool_call.id),
                                AIMessage("Error: " \o result.error[1], <<>>) >>
                        ELSE << ToolMessage(JsonCount(Len(result.flights)),
                                            tool_call.name, tool_call.id) >>
                IN  SearchLoop(Tail(tool_calls), Tail(outcomes),
                       [outbound |-> acc.outbound \o answer,
                        flight_options |-> options_after(result, acc.flight_options),
                        dispatched |-> Append(acc.dispatched, tool_call.id),
                        options |-> Append(acc.options,
                                       options_after(result, acc.flight_options)),
                        calls |-> acc.calls + backend_calls(Head(outcomes))])
           ELSE SearchLoop(Tail(tool_calls), outcomes, acc)

Reverse(s) == [i \in 1..Len(s) |-> s[Len(s) + 1 - i]]

\* Mutation of search_dispatch: the requests are taken last to first.
search_dispatch_Reversed(tool_calls, outcomes, flight_options) ==
    SearchLoop(Reverse(tool_calls), outcomes, LoopStart(flight_options))

\* Lines 229-254: the loop of _search_node over the tool requests of the
\* last message; outcomes holds the backend's answer for each request named
\* search_flights.
search_dispatch(tool_calls, outcomes, flight_options) ==
    SearchLoop(tool_calls, outcomes, LoopStart(flight_options))

\* The requests of a message that _search_node answers.
SearchRequests(tool_calls) ==
    SelectSeq(tool_calls, LAMBDA c : c.name = "search_flights")

\* Lines 258-267.
route_based_on_tools(state) ==
    IF Get(state.completed, FALSE) THEN "__end__"
    ELSE IF SearchRequests(Last(state.messages).tool_calls) # <<>> THEN "search"
    ELSE "chat"

\* ---- process_streamlit_input (lines 278-311)

\* Lines 288-292: the content of the last AI message that is not blank.
RECURSIVE LastAIContent(_)
LastAIContent(messages) ==
    IF messages = <<>> THEN Absent
    ELSE IF Last(messages).type = "ai" /\ StripNonEmpty(Last(messages).content)
      THEN Some(Last(messages).content)
    ELSE LastAIContent(SubSeq(messages, 1, Len(messages) - 1))

\* Lines 294-303: what is returned when graph.invoke returns new_state.
ReturnState(state, new_state) ==
    LET last_ai_msg == LastAIContent(new_state.messages) IN
    IF last_ai_msg # Absent
      THEN [messages |-> Append(state.messages, AIMessage(last_ai_msg[1], <<>>)),
            search_params |-> Some(Get(new_state.search_params, "{}")),
            flight_options |-> Some(Get(new_state.flight_options, <<>>)),
            selected_flight |-> Some(Get(new_state.selected_flight, "None")),
            booking_in_progress |-> Some(Get(new_state.booking_in_progress, FALSE)),
            completed |-> Some(Get(new_state.completed, FALSE)),
            status |-> Absent]
      ELSE state

\* Lines 304-311: what is returned when graph.invoke raises.
ErrorState(state) ==
    [messages |-> Append(state.messages, AIMessage(TRY_AGAIN, <<>>)),
     search_params |-> Absent,
     flight_options |-> Absent,
     selected_flight |-> Absent,
     booking_in_progress |-> Absent,
     completed |-> Absent,
     status |-> Some("error")]

\* Mutation of WebMayStep: an off-by-one in the limit.
WebMayStep_OffByOne(steps) == steps <= MAX_RECURSION

\* Line 286: graph.invoke runs one more node only below the recursion limit.
WebMayStep(steps) == steps < MAX_RECURSION

\* Lines 319-328: the session state main() starts with. The flag of the
\* state handed to process_streamlit_input is the caller's to set.
WebInit ==
    /\ \E completed \in BOOLEAN :
          chat_state = [messages |-> <<AIMessage(MAIN_WELCOME, <<>>)>>,
                        search_params |-> Some("{}"),
                        flight_options |-> Some(<<>>),
                        selected_flight |-> Some("None"),
                        booking_in_progress |-> Some(FALSE),
                        completed |-> Some(completed),
                        status |-> Absent]
    /\ graph = NoChannels
    /\ w_node = "idle"
    /\ w_prev = "none"
    /\ w_steps = 0
    /\ w_turns = 0
    /\ w_llm_calls = 0
    /\ w_presented = <<>>
    /\ w_dispatched = <<>>
    /\ w_cases = <<>>
    /\ w_options = <<>>
    /\ w_backend_at = <<>>
    /\ w_outcome = "none"
    /\ w_handed_completed = FALSE
    /\ w_tools_every_call = TRUE
    /\ w_llm_failed = FALSE
    /\ last_tool_use = 0

\* Lines 46-61 as one step of the caller: RateLimitedLLM.invoke sleeps as
\* long as it has to and records the call.
RateLimitedInvoke ==
    /\ now' = InvokeInstant
    /\ last_call_time' = InvokeInstant
    /\ call_count' = (IF CapReached(call_count) THEN 0 ELSE call_count) + 1
    /\ l_admitted' = Append(WithinWindow(l_admitted, InvokeInstant), InvokeInstant)
    /\ l_capped' = CapReached(call_count)
    /\ UNCHANGED <<l_pc, l_wake, l_late>>

\* Lines 278-286: a blank text returns the state as it is; any other text is
\* appended to the state's messages and graph.invoke starts on that state.
Submit ==
    /\ UNCHANGED notWeb
    /\ w_node = "idle"
    /\ w_turns < MaxTurns
    /\ \E user_input \in WebTexts :
          IF ~StripNonEmpty(user_input)
            THEN UNCHANGED webVars
            ELSE /\ chat_state' = [chat_state EXCEPT !.messages =
                                      Append(@, HumanMessage(user_input))]
                 /\ graph' = [messages |-> chat_state'.messages,
                              search_params |-> chat_state.search_params,
                              flight_options |-> chat_state.flight_options,
                              selected_flight |-> chat_state.selected_flight,
                              booking_in_progress |-> chat_state.booking_in_progress,
                              completed |-> chat_state.completed]
                 /\ w_node' = "start"
                 /\ w_prev' = "none"
                 /\ w_steps' = 0
                 /\ w_turns' = w_turns + 1
                 /\ w_llm_calls' = 0
                 /\ w_presented' = <<>>
                 /\ w_dispatched' = <<>>
                 /\ w_cases' = <<>>
                 /\ w_options' = <<>>
                 /\ w_backend_at' = <<>>
                 /\ w_outcome' = "none"
                 /\ w_handed_completed' =
                       (w_handed_completed \/ Get(chat_state.completed, FALSE))
                 /\ w_tools_every_call' = TRUE
                 /\ w_llm_failed' = FALSE
                 /\ UNCHANGED last_tool_use

\* The start node and the edge to the chat node (lines 189-190).
StartNode ==
    /\ UNCHANGED notWeb
    /\ w_node = "start"
    /\ WebMayStep(w_steps)
    /\ graph' = start_node(graph)
    /\ w_node' = "chat"
    /\ w_prev' = "start"
    /\ w_steps' = w_steps + 1
    /\ UNCHANGED <<chat_state, w_turns, w_llm_calls, w_presented, w_dispatched,
                   w_cases, w_options, w_backend_at,
                   w_outcome, w_handed_completed, w_tools_every_call,
                   w_llm_failed, last_tool_use>>

\* Lines 206-222 and the conditional edge of line 191: one call of the
\* reasoning service through the rate limiter; its exception is answered by
\* the fallback message. When the route is END, graph.invoke returns and
\* process_streamlit_input returns the new state (lines 288-303).
ChatNode ==
    /\ UNCHANGED <<terminalVars, toolsVars, driverVars>>
    /\ w_node = "chat"
    /\ WebMayStep(w_steps)
    /\ RateLimitedInvoke
    /\ w_presented' = ChatMessages(graph)
    /\ w_llm_calls' = w_llm_calls + 1
    /\ w_steps' = w_steps + 1
    /\ w_prev' = "chat"
    /\ \E outcome \in WebResponses(w_turns, w_llm_calls + 1) \cup {LLMException} :
          LET response == chat_node_message(outcome) IN
          /\ graph' = [graph EXCEPT !.messages = Append(@, response)]
          /\ w_tools_every_call' = (w_tools_every_call /\ response.tool_calls # <<>>)
          /\ w_llm_failed' = (w_llm_failed \/ outcome = LLMException)
    /\ IF route_based_on_tools(graph') = "__end__"
         THEN /\ w_node' = "idle"
              /\ chat_state' = ReturnState(chat_state, graph')
              /\ w_outcome' = "returned"
         ELSE /\ w_node' = route_based_on_tools(graph')
              /\ UNCHANGED <<chat_state, w_outcome>>
    /\ UNCHANGED <<w_turns, w_dispatched, w_cases, w_options, w_backend_at,
                   w_handed_completed, last_tool_use>>

\* Lines 224-256 and the edge of line 192: the spacing sleep of the node,
\* then the tool requests of the last message one after the other.
SearchNode ==
    /\ UNCHANGED <<terminalVars, toolsVars, driverVars, last_call_time, call_count, l_pc,
                   l_wake, l_late, l_admitted, l_capped>>
    /\ w_node = "search"
    /\ WebMayStep(w_steps)
    /\ now' = now + SpacingWait(now - last_tool_use)
    /\ last_tool_use' = now'
    /\ LET tool_calls == Last(graph.messages).tool_calls IN
       \E outcomes \in [1..Len(SearchRequests(tool_calls)) -> BackendCases] :
          LET done == search_dispatch(tool_calls, outcomes, graph.flight_options) IN
             /\ graph' = [graph EXCEPT !.messages = @ \o done.outbound,
                                       !.flight_options = done.flight_options]
             /\ w_dispatched' = w_dispatched \o done.dispatched
             /\ w_cases' = outcomes
             /\ w_options' = done.options
             /\ w_backend_at' = w_backend_at \o [i \in 1..done.calls |-> now']
    /\ w_node' = "chat"
    /\ w_prev' = "search"
    /\ w_steps' = w_steps + 1
    /\ UNCHANGED <<chat_state, w_turns, w_llm_calls, w_presented, w_outcome,
                   w_handed_completed, w_tools_every_call, w_llm_failed>>

\* Lines 286 and 304-311: a node is due and the recursion limit is used up;
\* graph.invoke raises GraphRecursionError and the handler returns the
\* error state.
WebRecursionError ==
    /\ UNCHANGED notWeb
    /\ w_node \in {"start", "chat", "search"}
    /\ ~WebMayStep(w_steps)
    /\ chat_state' = ErrorState(chat_state)
    /\ graph' = NoChannels
    /\ w_node' = "idle"
    /\ w_prev' = "none"
    /\ w_outcome' = "aborted"
    /\ w_presented' = <<>>
    /\ w_dispatched' = <<>>
    /\ w_cases' = <<>>
    /\ w_options' = <<>>
    /\ w_backend_at' = <<>>
    /\ UNCHANGED <<w_steps, w_turns, w_llm_calls, w_handed_completed,
                   w_tools_every_call, w_llm_failed, last_tool_use>>

WebNext ==
    \/ Submit
    \/ StartNode
    \/ ChatNode
    \/ SearchNode
    \/ WebRecursionError

(***************************************************************************)
(* The tools at the boundary of the dispatch                               *)
(***************************************************************************)

\* How many tool invocations of one session are explored.
MaxToolCalls == 3

\* The offers a hold is asked for and the order ids the backend gives out.
OfferIds == {"1", "2"}
OrderIds == {"ORD1", "ORD2"}

\* The errors of the backend; the SDK raises each as a ResponseError.
ResponseErrors == {"ResponseError", "NotFoundError"}

\* The exceptions each tool of flight_agent.py catches around its backend
\* call (lines 113-116, 126 and 153); the other tools make no backend call.
ToolCatches_Nothing(name) == {}

ToolCatches(name) ==
    CASE name = "search_flights" -> ResponseErrors \cup {"Exception"}
      [] name = "hold_reservation" -> ResponseErrors
      [] name = "cancel_hold" -> ResponseErrors
      [] OTHER -> {}

\* An exception leaves the tool when the backend call raised one the tool
\* does not catch.
ToolRaises(name, outcome) ==
    outcome \notin {"ok", "none"} /\ outcome \notin ToolCatches(name)

\* Line 151: the backend deletes an order it holds and reports any other
\* as not found; the service may fail as a whole.
delete_order(order_id, orders, outage) ==
    IF outage THEN "ResponseError"
    ELSE IF order_id \in orders THEN "ok"
    ELSE "NotFoundError"

\* One entry of the log of invocations.
Invocation(tool, arg, backend, result) ==
    [tool |-> tool, arg |-> arg, backend |-> backend, result |-> result]

\* Lines 108, 122 and 151: the request each tool of flight_agent.py sends.
tool_requests(name, arg) ==
    CASE name = "search_flights" -> << Request("shopping.flight_offers_search", "") >>
      [] name = "hold_reservation" -> << Request("booking.flight_orders.post", arg) >>
      [] name = "cancel_hold" -> << Request("booking.flight_orders.delete", arg) >>
      [] OTHER -> <<>>

\* The requests of the invocation `call`, as k_requests keeps them.
Sent(requests, call) ==
    [i \in 1..Len(requests) |-> [call |-> call, request |-> requests[i]]]

ToolsInit ==
    /\ b_orders = {}
    /\ k_log = <<>>
    /\ k_messages = <<>>
    /\ k_cases = <<>>
    /\ k_requests = <<>>
    /\ k_status = "running"

\* The dispatch of one request of flight_agent.py (ToolNode, line 222): the
\* tool runs with the backend outcome given and its result is fed back as a
\* ToolMessage, unless an exception leaves the tool.
TerminalDispatch(name, arg, outcome) ==
    /\ k_status = "running"
    /\ Len(k_log) < MaxToolCalls
    /\ k_cases' = Append(k_cases, Absent)
    /\ k_requests' = k_requests \o Sent(tool_requests(name, arg), Len(k_log) + 1)
    /\ IF ToolRaises(name, outcome)
         THEN /\ k_status' = "raised"
              /\ k_log' = Append(k_log, Invocation(name, arg, outcome, "raised"))
              /\ UNCHANGED k_messages
         ELSE /\ k_status' = "running"
              /\ k_log' = Append(k_log, Invocation(name, arg, outcome,
                                                   ToolOutput(name, outcome)))
              /\ k_messages' = k_messages \o
                    tool_node(<<ToolCall(name, 0, Len(k_log) + 1)>>, <<outcome>>)

\* flight_agent.py lines 74-116.
terminal_search_flights ==
    /\ UNCHANGED notTools
    /\ \E outcome \in BackendOutcomes :
          TerminalDispatch("search_flights", "ADD-CDG", outcome)
    /\ UNCHANGED b_orders

\* Lines 118-127: on success the backend holds one more order.
hold_reservation ==
    /\ UNCHANGED notTools
    /\ \E flight_id \in OfferIds :
          \/ /\ TerminalDispatch("hold_reservation", flight_id, "ResponseError")
             /\ UNCHANGED b_orders
          \/ \E order_id \in OrderIds \ b_orders :
                /\ TerminalDispatch("hold_reservation", flight_id, "ok")
                /\ b_orders' = b_orders \cup {order_id}

\* Lines 129-133.
add_passenger_info ==
    /\ UNCHANGED notTools
    /\ TerminalDispatch("add_passenger_info", "passenger_details", "none")
    /\ UNCHANGED b_orders

\* Lines 135-139.
process_payment ==
    /\ UNCHANGED notTools
    /\ TerminalDispatch("process_payment", "payment_details", "none")
    /\ UNCHANGED b_orders

\* Lines 141-145.
confirm_booking ==
    /\ UNCHANGED notTools
    /\ TerminalDispatch("confirm_booking", "", "none")
    /\ UNCHANGED b_orders

\* Lines 147-154.
cancel_hold ==
    /\ UNCHANGED notTools
    /\ \E flight_id \in OrderIds, outage \in BOOLEAN :
          LET outcome == delete_order(flight_id, b_orders, outage) IN
          /\ TerminalDispatch("cancel_hold", flight_id, outcome)
          /\ b_orders' = IF outcome = "ok" THEN b_orders \ {flight_id} ELSE b_orders

\* How the backend failed during one FlightTools.search_flights, if it did.
BackendFailure(b) ==
    IF b.origin.raised \/ b.dest.raised \/ b.search = "ResponseError"
      THEN "ResponseError"
      ELSE "ok"

\* The dispatch of one search request of f_agent.py (_search_node, lines
\* 229-254): the messages of the loop are fed back to the conversation.
web_search_flights ==
    /\ UNCHANGED notTools
    /\ k_status = "running"
    /\ Len(k_log) < MaxToolCalls
    /\ \E b \in LookupCases :
          LET request == ToolCall("search_flights", 0, Len(k_log) + 1)
              done == search_dispatch(<<request>>, <<b>>, Some(<<>>))
          IN  /\ k_log' = Append(k_log,
                     Invocation("FlightTools.search_flights", "ADD-CDG",
                                BackendFailure(b), done.outbound[1].content))
              /\ k_messages' = k_messages \o done.outbound
              /\ k_cases' = Append(k_cases, Some(b))
              /\ k_requests' = k_requests \o
                    Sent(backend_requests("Addis Ababa", "Paris", b), Len(k_log) + 1)
    /\ UNCHANGED <<b_orders, k_status>>

ToolsNext ==
    \/ terminal_search_flights
    \/ hold_reservation
    \/ add_passenger_info
    \/ process_payment
    \/ confirm_booking
    \/ cancel_hold
    \/ web_search_flights

(***************************************************************************)
(* The chat driver, ap_ag.py                                               *)
(***************************************************************************)

\* How many submissions of one session are explored.
MaxSubmissions == 4

DRIVER_WELCOME == "Welcome to FlightAgent! Where would you like to go?"

\* What st.chat_input may return: any text that is not empty.
DriverPrompts == {" ", "Find flights from ADD to CDG on 2025-06-20", "Thanks"}

\* f_agent.py lines 278-311 as the driver sees them: a blank text returns
\* the state as it is; for any other text graph.invoke raises
\* GraphRecursionError (no route of the graph reaches END once _start_node
\* has reset `completed`) and the handler returns the error state.
process_streamlit_input(user_input, state) ==
    IF ~StripNonEmpty(user_input)
      THEN state
      ELSE ErrorState([state EXCEPT !.messages = Append(@, HumanMessage(user_input))])

\* Lines 48-50: the AI messages of new_messages that are not yet in the
\* session's messages are appended to them, one after the other.
RECURSIVE MergeReplies(_, _)
MergeReplies(messages, new_messages) ==
    IF new_messages = <<>> THEN messages
    ELSE LET msg == Head(new_messages) IN
         IF msg.type = "ai" /\ ~(\E i \in 1..Len(messages) : messages[i] = msg)
           THEN MergeReplies(Append(messages, msg), Tail(new_messages))
           ELSE MergeReplies(messages, Tail(new_messages))

\* Lines 6-8.
DriverInit ==
    /\ d_messages = <<AIMessage(DRIVER_WELCOME, <<>>)>>
    /\ d_displayed = <<>>
    /\ d_replies = <<>>
    /\ d_submissions = 0

\* Lines 25-52: one submission.
DriverSubmit ==
    /\ UNCHANGED notDriver
    /\ d_submissions < MaxSubmissions
    /\ d_submissions' = d_submissions + 1
    /\ \E prompt \in DriverPrompts :
          LET messages == Append(d_messages, HumanMessage(prompt))
              temp_state == [messages |-> messages,
                             search_params |-> Some("{}"),
                             flight_options |-> Some(<<>>),
                             selected_flight |-> Some("None"),
                             booking_in_progress |-> Absent,
                             completed |-> Some(FALSE),
                             status |-> Absent]
              new_state == process_streamlit_input(prompt, temp_state)
              merged == MergeReplies(messages, new_state.messages)
          IN  /\ d_messages' = merged
              /\ d_displayed' = d_displayed \o
                    SubSeq(merged, Len(messages) + 1, Len(merged))
              /\ d_replies' = d_replies \o
                    SubSeq(new_state.messages, Len(messages) + 2,
                           Len(new_state.messages))

\* Lines 56-58: the session state is cleared and the script runs again.
DriverReset ==
    /\ UNCHANGED notDriver
    /\ d_submissions > 0
    /\ d_messages' = <<AIMessage(DRIVER_WELCOME, <<>>)>>
    /\ d_displayed' = <<>>
    /\ d_replies' = <<>>
    /\ d_submissions' = 0

DriverNext ==
    \/ DriverSubmit
    \/ DriverReset

(***************************************************************************)
(* Specifications                                                          *)
(***************************************************************************)

Init == LimiterInit /\ TerminalInit /\ WebInit /\ ToolsInit /\ DriverInit

SpecLimiter == Init /\ [][LimiterNext]_vars

\* The limiter with the scheduling the code relies on: the clock advances,
\* and a time.sleep whose duration has passed returns.
SpecLimiterLive ==
    /\ SpecLimiter
    /\ WF_vars(Tick)
    /\ WF_vars(InvokeAfterDelay)
    /\ WF_vars(InvokeAfterCap)

SpecTerminal == Init /\ [][TerminalNext]_vars

SpecWeb == Init /\ [][WebNext]_vars

SpecTools == Init /\ [][ToolsNext]_vars

SpecDriver == Init /\ [][DriverNext]_vars

(***************************************************************************)
(* Claims about the rate limiter, checked under SpecLimiter                *)
(***************************************************************************)

\* C9: any two consecutive admitted calls of RateLimitedLLM.invoke are at
\* least REQUEST_DELAY seconds apart.
C9_MinInterval ==
    \A i \in 1..(Len(l_admitted) - 1) :
        l_admitted[i + 1] - l_admitted[i] >= REQUEST_DELAY

\* A call that arrived early has slept and was admitted exactly
\* REQUEST_DELAY seconds after the call before it.
C9_Witness ==
    /\ l_pc = "idle"
    /\ Len(l_admitted) >= 2
    /\ l_wake = last_call_time
    /\ Last(l_admitted) - l_admitted[Len(l_admitted) - 1] = REQUEST_DELAY

\* C10: at most MAX_REQUESTS_PER_MINUTE calls are admitted within any one
\* window of WINDOW seconds (l_admitted holds the admitted calls of the
\* window, both ends included, that ends at the latest admitted call).
C10_WindowCap ==
    /\ Len(l_admitted) <= MAX_REQUESTS_PER_MINUTE
    /\ \A i \in 1..Len(l_admitted) : last_call_time - l_admitted[i] <= WINDOW

\* The window is full and the next call is held back by the cap branch.
C10_Witness ==
    /\ l_pc = "sleep_cap"
    /\ Len(l_admitted) = MAX_REQUESTS_PER_MINUTE
    /\ call_count = MAX_REQUESTS_PER_MINUTE

\* C11: every call of RateLimitedLLM.invoke is admitted after a finite wait:
\* from any state in which a call is sleeping, the limiter reaches the
\* state in which that call has been recorded; no sleep is longer than the
\* window; and the call is recorded as soon as its last sleep has returned.
C11_AlwaysAdmits ==
    /\ (l_pc # "idle") ~> (l_pc = "idle" /\ last_call_time >= l_wake)
    /\ [](l_pc # "idle" => l_wake - now <= WINDOW)
    /\ [](l_pc = "idle" /\ l_admitted # <<>>
             => /\ last_call_time = Last(l_admitted)
                /\ l_wake <= last_call_time
                /\ last_call_time - l_wake <= MaxLate)

\* A call made when the counter had reached the cap has slept the 60
\* seconds and was admitted.
C11_Witness ==
    /\ l_pc = "idle"
    /\ l_capped
    /\ call_count = 1
    /\ last_call_time = now

\* C17 (as claimed): the counter counts the calls of the current window
\* only, and a call held back by the cap waits no longer than to the end of
\* the window that began with the first call counted.
C17_FixedWindow ==
    /\ call_count <= Len(l_admitted)
    /\ l_pc = "sleep_cap" => l_wake <= l_admitted[1] + WINDOW

(***************************************************************************)
(* Claims about the terminal agent graph, checked under SpecTerminal       *)
(***************************************************************************)

\* C1: once the human step has read a quit token, `finished` is set, the
\* graph is at END, and no reasoning-service call or tool call has been
\* issued since that input.
C1_QuitEndsSession ==
    t_quit_read =>
        /\ t_finished = Some(TRUE)
        /\ t_node = "__end__"
        /\ t_after_quit = 0
        /\ Last(t_messages).type = "human"
        /\ Last(t_messages).content \in QuitTokens

\* A quit token was read after the reasoning service had been called.
C1_Witness ==
    /\ t_quit_read
    /\ t_node = "__end__"
    /\ t_llm_calls >= 1

\* C2 (as claimed): as long as no user text is a quit token the graph does
\* not end, neither at END nor by the recursion limit. Stated for the
\* sessions in which no response requests a tool.
C2_NeverTerminalWithoutQuit ==
    (~t_quit_read /\ \A i \in 1..Len(t_messages) : t_messages[i].tool_calls = <<>>)
        => t_node \notin {"__end__", "GraphRecursionError"}

\* C18 (as claimed): once the reasoning service has been called, the rate
\* limiter has recorded a call.
C18_ReasoningCallsAcquire ==
    t_llm_calls >= 1 => (call_count >= 1 /\ last_call_time >= StartTime)

(***************************************************************************)
(* Claims about the web agent, checked under SpecWeb                       *)
(***************************************************************************)

\* The messages of the running graph.invoke.
History == graph.messages

\* The tool_call_ids of the ToolMessages of a history, in its order.
ToolResultIds(msgs) ==
    LET results == SelectSeq(msgs, LAMBDA m : m.type = "tool")
    IN  [i \in 1..Len(results) |-> results[i].tool_call_id]

\* The ids of the search_flights requests of a history, in its order.
RECURSIVE SearchRequestIds(_)
SearchRequestIds(msgs) ==
    IF msgs = <<>> THEN <<>>
    ELSE LET requests == SearchRequests(Head(msgs).tool_calls)
         IN  [i \in 1..Len(requests) |-> requests[i].id]
             \o SearchRequestIds(Tail(msgs))

\* The index of the last message before j that is not a ToolMessage, or 0.
PrevNonTool(msgs, j) ==
    LET before == {i \in 1..(j - 1) : msgs[i].type # "tool"}
    IN  IF before = {} THEN 0
        ELSE CHOOSE i \in before : \A k \in before : k <= i

\* C3 (as claimed): after a reasoning step whose AI message carries no
\* ToolRequests, with the completion flag not set, the turn is over: the
\* agent awaits the next input and that message is the one returned.
C3_NoToolsAwaitsInput ==
    ( /\ w_prev = "chat"
      /\ Last(History).tool_calls = <<>>
      /\ ~Get(graph.completed, FALSE) )
    => /\ w_node = "idle"
       /\ Last(chat_state.messages).content = Last(History).content

\* C4: a turn never runs more than MAX_RECURSION steps; when a node is due
\* at the cap the next step aborts the turn; and an aborted turn leaves the
\* agent awaiting input with the user's text and the 'try again' message as
\* the last two messages of the state.
C4_StepCap ==
    /\ [](w_steps <= MAX_RECURSION)
    /\ [][(w_node # "idle" /\ w_steps >= MAX_RECURSION)
             => (w_node' = "idle" /\ w_outcome' = "aborted")]_vars
    /\ [](w_outcome = "aborted" =>
             /\ w_node = "idle"
             /\ w_steps = MAX_RECURSION
             /\ Last(chat_state.messages) = AIMessage(TRY_AGAIN, <<>>)
             /\ chat_state.messages[Len(chat_state.messages) - 1].type = "human")

\* A turn in which every response requested tools was aborted at the cap, in
\* a session that had an aborted turn before it.
C4_Witness ==
    /\ w_outcome = "aborted"
    /\ w_tools_every_call
    /\ w_llm_calls >= 2
    /\ w_turns >= 2

\* C5 (as claimed): when the next reasoning call is due, history holds
\* exactly one ToolResult for each ToolRequest of every AI message.
C5_EveryRequestAnswered ==
    w_node = "chat" =>
        \A i \in 1..Len(History) :
            \A k \in 1..Len(History[i].tool_calls) :
                Cardinality({j \in 1..Len(History) :
                                /\ History[j].type = "tool"
                                /\ History[j].tool_call_id = History[i].tool_calls[k].id}) = 1

\* C6 (as claimed): every ToolResult answers a ToolRequest of the message
\* that precedes it, counting back over ToolResults only.
C6_ResultMatchesPrecedingRequest ==
    \A j \in 1..Len(History) :
        History[j].type = "tool" =>
            LET i == PrevNonTool(History, j) IN
               /\ i > 0
               /\ History[i].type = "ai"
               /\ \E k \in 1..Len(History[i].tool_calls) :
                     History[i].tool_calls[k].id = History[j].tool_call_id

C8_CompletedIsTerminal ==
    w_handed_completed =>
        /\ w_llm_calls = 0
        /\ w_dispatched = <<>>
        /\ Get(chat_state.completed, FALSE)

\* C12 (as claimed): once llm.invoke has raised in a turn, the turn is over
\* and the state returned to the caller has gained the fallback message as
\* the one AI message of the turn.
C12_FailureYieldsFallback ==
    w_llm_failed =>
        /\ w_node = "idle"
        /\ w_outcome = "returned"
        /\ Last(chat_state.messages) = AIMessage(FALLBACK, <<>>)
        /\ chat_state.messages[Len(chat_state.messages) - 1].type = "human"

\* The backend gave a search response without offers.
ZeroOffers(b) ==
    /\ get_airport_code(b.origin) # Absent
    /\ get_airport_code(b.dest) # Absent
    /\ b.search = "data"
    /\ b.data = <<>>

\* The ToolMessages the latest dispatch has appended.
DispatchResults ==
    LET results == SelectSeq(History, LAMBDA m : m.type = "tool")
    IN  SubSeq(results, Len(results) - Len(w_cases) + 1, Len(results))

\* C15: after a dispatch, every search that got zero offers is answered by
\* the error payload 'No flights found' and has left flight_options at the
\* value it had before that search; the channel holds the last value.
C15_ZeroOffersKeepOptions ==
    w_prev = "search" =>
        /\ Len(w_options) = Len(w_cases) + 1
        /\ graph.flight_options = Last(w_options)
        /\ \A k \in 1..Len(w_cases) :
              ZeroOffers(w_cases[k]) =>
                 /\ DispatchResults[k].content = JsonError("No flights found")
                 /\ w_options[k + 1] = w_options[k]

\* A dispatch of two searches: the first found offers, the second none, and
\* flight_options holds the offers of the first.
C15_Witness ==
    /\ w_prev = "search"
    /\ Len(w_cases) = 2
    /\ w_cases[1].data = TwoOffers /\ w_options[2] # w_options[1]
    /\ ZeroOffers(w_cases[2])
    /\ Len(Get(graph.flight_options, <<>>)) = 2

\* C19 (as claimed): the messages handed to the reasoning service begin
\* with the System message, hold it once, and the stored history holds none.
C19_SystemMessageFirst ==
    w_presented # <<>> =>
        /\ w_presented[1].type = "system"
        /\ Cardinality({i \in 1..Len(w_presented) : w_presented[i].type = "system"}) = 1
        /\ \A i \in 1..Len(History) : History[i].type # "system"

\* C20 (as claimed): any two consecutive backend calls of the dispatch are
\* at least REQUEST_DELAY seconds apart, and the counter of the limiter has
\* counted them along with the reasoning calls of the turn.
C20_BackendCallsLimited ==
    /\ \A i \in 1..(Len(w_backend_at) - 1) :
          w_backend_at[i + 1] - w_backend_at[i] >= REQUEST_DELAY
    /\ call_count < MAX_REQUESTS_PER_MINUTE
          => call_count >= w_llm_calls + Len(w_backend_at)

\* The backend gave a search response with offers the tool can format.
Found(b) ==
    /\ get_airport_code(b.origin) # Absent
    /\ get_airport_code(b.dest) # Absent
    /\ b.search = "data"
    /\ b.data # <<>>
    /\ \A i \in 1..Len(b.data) : b.data[i].class # Absent

\* C21: after a dispatch, every search that found offers has left
\* flight_options holding exactly its result; and a reasoning call made
\* after a dispatch of the turn, while flight_options holds flights, was
\* presented with the ToolResult of that search and, as its last message,
\* with the 'Flight options' digest of those flights.
C21_SearchResultPresented ==
    /\ w_prev = "search" =>
          \A k \in 1..Len(w_cases) :
             Found(w_cases[k]) =>
                w_options[k + 1] = Some(format_flight_results(w_cases[k].data))
    /\ (w_prev = "chat" /\ w_cases # <<>> /\ Get(graph.flight_options, <<>>) # <<>>) =>
          LET flights == graph.flight_options[1] IN
             /\ Last(w_presented) =
                   AIMessage("Flight options:\n" \o format_flights(flights), <<>>)
             /\ \E i \in 1..Len(w_presented) :
                   /\ w_presented[i].type = "tool"
                   /\ w_presented[i].content = JsonCount(Len(flights))
                   /\ \E j \in 1..Len(w_dispatched) :
                         w_dispatched[j] = w_presented[i].tool_call_id

\* The second reasoning call of a turn was made after a search that found
\* two offers.
C21_Witness ==
    /\ w_prev = "chat"
    /\ w_llm_calls >= 2
    /\ w_cases # <<>>
    /\ Len(Get(graph.flight_options, <<>>)) = 2
    /\ Len(w_presented) >= 2

(***************************************************************************)
(* Claims about the tools, checked under SpecTools                         *)
(***************************************************************************)

\* The ToolMessages fed back so far, in their order.
ToolResults == SelectSeq(k_messages, LAMBDA m : m.type = "tool")

\* C13 (as claimed): cancel_hold returns the success result whenever the
\* backend reports the order as not found, be it cancelled by the call
\* before or never held.
C13_CancelIdempotent ==
    \A i \in 1..Len(k_log) :
        (k_log[i].tool = "cancel_hold" /\ k_log[i].backend = "NotFoundError")
            => k_log[i].result = "Hold cancelled successfully"

\* C14 (as claimed): confirm_booking reports a confirmed booking only after
\* a hold, add_passenger_info and process_payment have succeeded.
C14_ConfirmNeedsAll ==
    \A i \in 1..Len(k_log) :
        (k_log[i].tool = "confirm_booking"
           /\ k_log[i].result = "Booking confirmed. Reference: ABC123")
        => /\ \E j \in 1..(i - 1) : /\ k_log[j].tool = "hold_reservation"
                                     /\ k_log[j].backend = "ok"
           /\ \E j \in 1..(i - 1) : k_log[j].tool = "add_passenger_info"
           /\ \E j \in 1..(i - 1) : k_log[j].tool = "process_payment"

\* The error payloads of the tools.
ErrorPayloads ==
    { "Error searching flights", "Error holding flight", "Error cancelling hold",
      JsonError("Invalid airport codes"), JsonError("API error: ResponseError") }

\* C16: no exception leaves a tool; every invocation is fed back as one
\* ToolMessage holding the tool's result; and when the backend failed
\* during the invocation that result is the tool's error payload.
C16_BackendFailureFedBack ==
    /\ k_status = "running"
    /\ Len(ToolResults) = Len(k_log)
    /\ \A i \in 1..Len(k_log) :
          /\ ToolResults[i].content = k_log[i].result
          /\ k_log[i].backend \in ResponseErrors
                => ToolResults[i].content \in ErrorPayloads

\* The backend has failed during a hold, during a cancel and during the
\* airport lookup of a search of the web agent.
C16_Witness ==
    /\ \E i \in 1..Len(k_log) : /\ k_log[i].tool = "hold_reservation"
                                 /\ k_log[i].backend = "ResponseError"
    /\ \E i \in 1..Len(k_log) : /\ k_log[i].tool = "cancel_hold"
                                 /\ k_log[i].backend \in ResponseErrors
    /\ \E i \in 1..Len(k_log) :
          /\ k_log[i].tool = "FlightTools.search_flights"
          /\ k_log[i].backend = "ResponseError"
          /\ k_log[i].result = JsonError("Invalid airport codes")

\* C22: a search of the web agent for which the origin or the destination
\* was not resolved to a code returns 'Invalid airport codes' and has sent
\* no offer search to the backend.
C22_NoSearchOnInvalidCodes ==
    \A i \in 1..Len(k_log) :
        k_cases[i] # Absent =>
            LET b == k_cases[i][1] IN
            (get_airport_code(b.origin) = Absent \/ get_airport_code(b.dest) = Absent)
            => /\ k_log[i].result = JsonError("Invalid airport codes")
               /\ \A j \in 1..Len(k_requests) :
                     k_requests[j].call = i
                        => k_requests[j].request.api # "shopping.flight_offers_search"

\* Three searches: the origin alone, the destination alone and both were
\* not resolved.
C22_Witness ==
    /\ \E i \in 1..Len(k_cases) :
          /\ k_cases[i] # Absent
          /\ get_airport_code(k_cases[i][1].origin) = Absent
          /\ get_airport_code(k_cases[i][1].dest) # Absent
    /\ \E i \in 1..Len(k_cases) :
          /\ k_cases[i] # Absent
          /\ get_airport_code(k_cases[i][1].origin) # Absent
          /\ get_airport_code(k_cases[i][1].dest) = Absent
    /\ \E i \in 1..Len(k_cases) :
          /\ k_cases[i] # Absent
          /\ get_airport_code(k_cases[i][1].origin) = Absent
          /\ get_airport_code(k_cases[i][1].dest) = Absent

\* C23 (as claimed): the backend receives at most one airport lookup for
\* each keyword in a session.
C23_LookupCached ==
    \A i, j \in 1..Len(k_requests) :
        ( /\ i # j
          /\ k_requests[i].request.api = "reference_data.locations"
          /\ k_requests[j].request.api = "reference_data.locations" )
        => k_requests[i].request.keyword # k_requests[j].request.keyword

(***************************************************************************)
(* Claims about the chat driver, checked under SpecDriver                  *)
(***************************************************************************)

\* C24 (as claimed): every assistant reply produced for a submission is in
\* the stored history, in the order of the submissions, and was displayed.
C24_AppendOnlyNoDedup ==
    /\ SelectSeq(Tail(d_messages), LAMBDA m : m.type = "ai") = d_replies
    /\ d_displayed = d_replies

(***************************************************************************)
(* Claims about the start and the routing of the terminal agent, checked   *)
(* under SpecTerminal                                                      *)
(***************************************************************************)

\* C25: a session started with an empty history first produces the welcome
\* message as the only message, without a call of the reasoning service, and
\* then waits for user input; the reasoning service is called only after a
\* first user text that is no quit token.
C25_WelcomeWithoutReasoning ==
    /\ t_steps >= 1 =>
          /\ Len(t_messages) >= 1
          /\ t_messages[1] = AIMessage(WELCOME_MSG, <<>>)
    /\ t_steps = 1 =>
          /\ t_messages = <<AIMessage(WELCOME_MSG, <<>>)>>
          /\ t_llm_calls = 0
          /\ t_node = "human"
    /\ t_llm_calls >= 1 =>
          /\ Len(t_messages) >= 2
          /\ t_messages[2].type = "human"
          /\ t_messages[2].content \notin QuitTokens

\* The first call of the reasoning service has answered the first user text.
C25_Witness ==
    /\ t_llm_calls = 1
    /\ Len(t_messages) = 3
    /\ t_messages[3].type = "ai"

\* C26: after a reasoning step the tools node is due exactly when the latest
\* AI message carries tool requests, and the human node otherwise; the tools
\* node hands over to the reasoning node; the human node is never due while
\* the latest message carries tool requests.
C26_ToolRouting ==
    /\ [][(t_node = "chatbot" /\ t_steps' = t_steps + 1 /\ t_node' # "LLMError")
            => /\ Last(t_messages').type = "ai"
               /\ t_node' = IF Last(t_messages').tool_calls # <<>>
                               THEN "tools" ELSE "human"]_vars
    /\ [][(t_node = "tools" /\ t_steps' = t_steps + 1)
            => /\ t_node' = "chatbot"
               /\ Last(t_messages').type = "tool"]_vars
    /\ [](t_node = "human" => Last(t_messages).tool_calls = <<>>)
    /\ [](t_node = "tools" => Last(t_messages).tool_calls # <<>>)

\* The human node is due after tools were requested and have answered.
C26_Witness ==
    /\ t_node = "human"
    /\ t_tool_runs > 0
    /\ \E i \in 1..Len(t_messages) : t_messages[i].type = "tool"

(***************************************************************************)
(* Claims about the side state of the web agent, checked under SpecWeb     *)
(***************************************************************************)

\* The values of the side state the claims C27 and C28 name, a missing key
\* read with the default of the code.
SideState(state) ==
    [search_params |-> Get(state.search_params, "{}"),
     flight_options |-> Get(state.flight_options, <<>>),
     selected_flight |-> Get(state.selected_flight, "None")]

\* C27 (as claimed): side state survives from one user turn to the next:
\* what a turn ends with is what the conversation state keeps, the next
\* submission starts the graph on it, and the start of the turn leaves it
\* as it is, so that the reasoning step of the next turn sees the
\* flight_options, search_params and selected_flight of the turn before.
C27_SideStateSurvives ==
    /\ [][(w_node # "idle" /\ w_node' = "idle")
            => SideState(chat_state') = SideState(graph)]_vars
    /\ [][(w_node = "idle" /\ w_node' = "start")
            => SideState(graph') = SideState(chat_state)]_vars
    /\ [][(w_node = "start" /\ w_node' = "chat")
            => SideState(graph') = SideState(graph)]_vars

\* C28 (as claimed): a turn that is aborted changes only the message
\* history: the state it returns has search_params, flight_options,
\* selected_flight and completed with the values they had before the turn.
C28_AbortKeepsFields ==
    [][(w_node # "idle" /\ w_outcome' = "aborted")
        => /\ chat_state'.search_params = chat_state.search_params
           /\ chat_state'.flight_options = chat_state.flight_options
           /\ chat_state'.selected_flight = chat_state.selected_flight
           /\ chat_state'.completed = chat_state.completed]_vars

====
